---- MODULE Spec2Model ----
(***************************************************************************)
(* Corrective RAG workflow of src/rag/corrective_rag.py: the StateGraph    *)
(* built by CorrectiveRAG.build_graph, its six nodes and its conditional   *)
(* edge, invoked repeatedly on one compiled graph (one checkpointer, one   *)
(* thread id), so the channels of CorrectiveRAGState survive from one      *)
(* invocation to the next.  The second part is the caller: the Streamlit   *)
(* script of src/ui_app and the SQLite chat store of src/core, run by two  *)
(* browser sessions on one database.                                       *)
(*                                                                         *)
(* Strings that the code takes apart (queries) are sequences of one-letter *)
(* words; a response is the sequence of its parts; an Optional value is a  *)
(* sequence of length 0 (None / unset) or 1.                               *)
(***************************************************************************)
EXTENDS Integers, Sequences, FiniteSets, TLC

VARIABLES
    pc,                 \* node about to run: "START", a node name, "END", "failed"
    query,              \* channel CorrectiveRAGState.query
    agent_response,     \* channel agent_response (<<>> while unset)
    relevant_documents, \* channel relevant_documents
    filter_model,       \* channel filter_model ("unset" or the model name)
    basic_model,        \* channel basic_model
    agent_metadata,     \* channel agent_metadata: <<>> is None, <<m>> a dict
    documents,          \* local `documents` of grade_and_filter_documents
    filtered_documents, \* local `filtered_documents` of the same function
    idx,                \* number of documents the for loop has consumed
    graded,             \* history: grader outputs of this invocation, in call order
    trace,              \* history: nodes completed in this invocation, in order
    gen_calls,          \* history: arguments of base_rag.generation calls
    web_calls,          \* history: user-message contents sent to the Groq model
    web_raw,            \* history: raw text returned by the Groq model
    submitted,          \* history: the query passed to compiled_graph.invoke
    candidate_documents,\* history: the list base_rag.retrieval returned
    error,              \* history: exception that ended the invocation
    run,                \* number of invocations started on this compiled graph
    retrieval_calls,    \* history: base_rag.retrieval calls of this invocation
    grade_calls,        \* history: retrieval_grader.invoke calls of this invocation
    rewrite_calls,      \* history: arguments of the query_rewriter.invoke calls
    deterministic,      \* the store and the grading model answer as functions
    invocations,        \* how often the caller invokes one compiled graph
    store_memo,         \* <<>> or <<r>>: what the store answered for the query
    grader_memo,        \* per document <<>> or <<raw>>: what the grader answered
    first_filtered,     \* <<>> or the filtered list of the first graded run
    in_flight,          \* grading requests sent whose answer has not come back
    since_call,         \* <<>> or <<t>>: time since the last grading call began
    grade_args,         \* history: documents handed to the grader, in call order
    db,                 \* the SQLite file: sessions rows, messages rows, rowid
    issued,             \* session ids time_random_id has handed out so far
    session_state,      \* per browser session: st.session_state
    ui_pc,              \* per browser session: where its script run stands
    call,               \* the last call made on the chat store by a client
                        \* that uses the class directly, and what it returned
    handling            \* per browser session: the session_id of the prompt
                        \* being handled (local of the script run)

vars == <<pc, query, agent_response, relevant_documents, filter_model,
          basic_model, agent_metadata, documents, filtered_documents, idx,
          graded, trace, gen_calls, web_calls, web_raw, submitted,
          candidate_documents, error, run, retrieval_calls, grade_calls,
          rewrite_calls, deterministic, invocations, store_memo, grader_memo,
          first_filtered, in_flight, since_call, grade_args, db, issued,
          session_state, ui_pc, call, handling>>

----------------------------------------------------------------------------
(* Bounds *)

MaxDocs == 3        \* documents the store holds for a query (capped by TopK)
MaxRuns == 2        \* invocations on one compiled graph
MaxQueryLen == 2    \* words in a string the rewriting model returns
MaxPromptLen == 1   \* words in a prompt the user submits
MaxSessions == 3    \* session ids handed out over the life of the database
MaxMessages == 1    \* rows the messages table has seen when a prompt is taken
MaxRows == 2        \* rows a client of the store inserts into the messages table

(* Program constants *)

TopK == 5           \* FoundationRAG.retrieval(query, k=5)
SummaryLength == 5  \* KeywordSummarizer.summarize_text(summary_length=5)
NPhrases == 10      \* summarize_text(query, n_phrases=10)
GradeDelay == 6     \* time.sleep(6) after every grading call

----------------------------------------------------------------------------
(* Generic helpers *)

Min(a, b) == IF a < b THEN a ELSE b

Range(s) == {s[i] : i \in 1..Len(s)}

SeqsUpTo(S, n) == UNION {[1..k -> S] : k \in 0..n}

IsPrefix(s, t) == Len(s) <= Len(t) /\ \A i \in 1..Len(s) : s[i] = t[i]

RECURSIVE IsSubseq(_, _)
(* s can be obtained from t by deleting elements, order kept *)
IsSubseq(s, t) ==
    IF s = <<>> THEN TRUE
    ELSE IF t = <<>> THEN FALSE
    ELSE IF Head(s) = Head(t) THEN IsSubseq(Tail(s), Tail(t))
    ELSE IsSubseq(s, Tail(t))

NoDuplicates(s) == \A i, j \in 1..Len(s) : s[i] = s[j] => i = j

RECURSIVE OrderedDedup(_)
(* first-seen order, later repeats removed: the reference the claims name *)
OrderedDedup(s) ==
    IF s = <<>> THEN <<>>
    ELSE LET r == OrderedDedup(SubSeq(s, 1, Len(s) - 1))
             x == s[Len(s)]
         IN IF x \in Range(r) THEN r ELSE Append(r, x)

----------------------------------------------------------------------------
(* Documents of the store *)

SourceUrl == "https://www.universitiesegypt.com/"

Doc(t, u) == [page_content |-> t,
              metadata |-> [source |-> SourceUrl, university_name |-> u]]

Corpus == {Doc("t1", "cairo university"),
           Doc("t2", "cairo university"),
           Doc("t3", "helwan university"),
           Doc("t4", "helwan university")}

(* What collection.query(query_texts=[query], n_results=k) can return: one *)
(* inner list of texts and one of metadatas, at most k entries each, the   *)
(* entries being distinct chunks of the collection.                        *)
ChromaResults ==
    {[documents |-> <<[i \in 1..Len(d) |-> d[i].page_content]>>,
      metadatas |-> <<[i \in 1..Len(d) |-> d[i].metadata]>>] :
        d \in {e \in SeqsUpTo(Corpus, Min(TopK, MaxDocs)) : NoDuplicates(e)}}

(* FoundationRAG.retrieval: pairs documents[0][i] with metadatas[0][i] *)
retrieval(results) ==
    IF results.documents = <<>> THEN <<>>
    ELSE [i \in 1..Len(results.documents[1]) |->
             [page_content |-> results.documents[1][i],
              metadata |-> results.metadatas[1][i]]]

----------------------------------------------------------------------------
(* Query strings and the keyword summarizer *)

StopWords == {"a"}
Alphabet == {"x", "a"}
Strings == SeqsUpTo(Alphabet, MaxQueryLen)
(* st.chat_input yields a non-empty prompt *)
Prompts == SeqsUpTo(Alphabet, MaxPromptLen) \ {<<>>}

RECURSIVE RemoveStopWords(_)
RemoveStopWords(text) ==
    IF text = <<>> THEN <<>>
    ELSE IF Head(text) \in StopWords THEN RemoveStopWords(Tail(text))
    ELSE <<Head(text)>> \o RemoveStopWords(Tail(text))

(* candidate key phrases: n-grams of 1..n words of the text without stop words *)
Keyphrases(text, n) ==
    LET t == RemoveStopWords(text)
    IN {SubSeq(t, i, j) : i \in 1..Len(t), j \in 1..Len(t)} \
           {p \in SeqsUpTo(Alphabet, Len(t)) : Len(p) = 0 \/ Len(p) > n}

(* text[:c] on a string of one-letter words separated by single blanks *)
TakeChars(text, c) == SubSeq(text, 1, Min(Len(text), (c + 1) \div 2))

(* a summarizer that hands the text back as it is *)
summarize_text_identity(text, summary_length, n_phrases) == {text}

(* KeywordSummarizer.summarize_text: the values it can return *)
summarize_text(text, summary_length, n_phrases) ==
    IF Keyphrases(text, n_phrases) # {}
    THEN Keyphrases(text, n_phrases)
    ELSE {TakeChars(text, summary_length)}

----------------------------------------------------------------------------
(* Relevance grader *)

(* how long one grading round trip can take, in the time unit of the delay *)
CallDurations == {0, 1}

(* a loop that does not pause between two calls *)
sleepSkipped(elapsed, seconds) == elapsed

(* line 101, time.sleep(seconds): the time elapsed once the call returns *)
sleep(elapsed, seconds) == elapsed + seconds

(* what the grading model can answer: a well-formed verdict, a verdict in  *)
(* another spelling, another word, or text that is no JSON object at all   *)
RawGraderOutputs == {"yes", "no", "Yes", "maybe", "not json"}

Lower == [s \in {"yes", "no", "Yes", "YES", "No", "NO", "maybe", "not json"} |->
             CASE s \in {"yes", "Yes", "YES"} -> "yes"
               [] s \in {"no", "No", "NO"} -> "no"
               [] OTHER -> s]

(* PydanticOutputParser(GradeDocuments): binary_score is "yes" or "no", any *)
(* other value is a parse failure                                           *)
ParseGrade(raw) ==
    IF raw \in {"yes", "no"}
    THEN [ok |-> TRUE, binary_score |-> raw]
    ELSE [ok |-> FALSE, binary_score |-> raw]

(* the survivor is stored with its source entry blanked *)
KeepDocumentBlanksSource(grader_response, filtered, document) ==
    IF Lower[grader_response.binary_score] = "yes"
    THEN Append(filtered, [document EXCEPT !.metadata.source = ""])
    ELSE filtered

(* the survivor is put in front of the list instead of at its end *)
KeepDocumentPrepend(grader_response, filtered, document) ==
    IF Lower[grader_response.binary_score] = "yes"
    THEN <<document>> \o filtered
    ELSE filtered

(* the test of line 102 inverted: the documents graded no are kept *)
KeepDocumentInverted(grader_response, filtered, document) ==
    IF Lower[grader_response.binary_score] = "yes"
    THEN filtered
    ELSE Append(filtered, document)

(* lines 102-103: the document is appended when the verdict is yes *)
KeepDocument(grader_response, filtered, document) ==
    IF Lower[grader_response.binary_score] = "yes"
    THEN Append(filtered, document)
    ELSE filtered

----------------------------------------------------------------------------
(* Answer generation *)

GenAnswers == {"g1"}
WebAnswers == {"w1", "w2"}
ModelName == "gemini-2.5-flash"
Preamble ==
    "I couldn't get any data from the documents I had, so I searched the internet and this is what I found:\n\n"

None == <<>>
Some(x) == <<x>>

(* a fallback answer given without the fixed preamble *)
FallbackResponseNoPreamble(response_text) == <<response_text>>

(* lines 190-194: the preamble followed by the raw model output *)
FallbackResponse(response_text) == <<Preamble, response_text>>

Truthy(v) == v # ""

(* FoundationRAG.augmented: the context block, texts joined by blank lines *)
augmented(q, retrieved_documents) ==
    [context |-> [i \in 1..Len(retrieved_documents) |->
                      retrieved_documents[i].page_content],
     separator |-> "\n\n"]

(* the comprehension of line 124 with its condition negated *)
SourcesFalsy(docs) ==
    LET all == [i \in 1..Len(docs) |-> docs[i].metadata.source]
        Falsy(v) == ~Truthy(v)
    IN SelectSeq(all, Falsy)

(* line 124 *)
Sources(docs) ==
    LET all == [i \in 1..Len(docs) |-> docs[i].metadata.source]
    IN SelectSeq(all, Truthy)

RECURSIVE DedupSeenLast(_, _)
(* a deduplication that keeps the last occurrence of each name *)
DedupSeenLast(universities, seen) ==
    IF universities = <<>> THEN <<>>
    ELSE IF Head(universities) \in Range(Tail(universities))
         THEN DedupSeenLast(Tail(universities), seen)
         ELSE <<Head(universities)>> \o DedupSeenLast(Tail(universities), seen)

RECURSIVE DedupSeen(_, _)
(* line 127-128: seen = set(); [u for u in universities if not (u in seen or seen.add(u))] *)
DedupSeen(universities, seen) ==
    IF universities = <<>> THEN <<>>
    ELSE IF Head(universities) \in seen
         THEN DedupSeen(Tail(universities), seen)
         ELSE <<Head(universities)>> \o
                  DedupSeen(Tail(universities), seen \cup {Head(universities)})

(* lines 125-128 *)
Universities(docs) ==
    LET all == [i \in 1..Len(docs) |-> docs[i].metadata.university_name]
    IN DedupSeen(SelectSeq(all, Truthy), {})

(* the else branch of line 134 taken whatever the documents *)
MetadataAlwaysNone(docs) == None

(* lines 123-134 *)
Metadata(docs) ==
    IF docs # <<>>
    THEN Some([sources |-> Sources(docs), university_name |-> Universities(docs)])
    ELSE None

----------------------------------------------------------------------------
(* The graph of build_graph *)

(* build_graph with the rewrite step looping back to retrieval *)
EdgeLoopBack(node) ==
    CASE node = "START" -> "get_model"
      [] node = "get_model" -> "get_relevant_documents"
      [] node = "get_relevant_documents" -> "grade_and_filter_documents"
      [] node = "generate_answer_from_documents" -> "END"
      [] node = "transform_query" -> "get_relevant_documents"
      [] node = "generate_answer_from_web_search" -> "END"

Edge(node) ==
    CASE node = "START" -> "get_model"
      [] node = "get_model" -> "get_relevant_documents"
      [] node = "get_relevant_documents" -> "grade_and_filter_documents"
      [] node = "generate_answer_from_documents" -> "END"
      [] node = "transform_query" -> "generate_answer_from_web_search"
      [] node = "generate_answer_from_web_search" -> "END"

(* lines 224-225 with the two targets exchanged *)
ConditionalEdgeSwapped(label) ==
    CASE label = "transform_query" -> "generate_answer_from_documents"
      [] label = "generate" -> "transform_query"

(* line 224 sending the empty case straight to the web search *)
ConditionalEdgeSkipsRewrite(label) ==
    CASE label = "transform_query" -> "generate_answer_from_web_search"
      [] label = "generate" -> "generate_answer_from_documents"

ConditionalEdge(label) ==
    CASE label = "transform_query" -> "transform_query"
      [] label = "generate" -> "generate_answer_from_documents"

(* line 142 with >= for > *)
decide_generation_source_ge(docs) ==
    IF Len(docs) >= 0 THEN "generate" ELSE "transform_query"

decide_generation_source(docs) ==
    IF Len(docs) > 0 THEN "generate" ELSE "transform_query"

----------------------------------------------------------------------------
(* State machine *)

(* two browser tabs on the one application and its one database file *)
Browsers == {"b1", "b2"}

(* st.session_state of a browser session that has not run the script yet *)
NoSessionState == [has |-> FALSE, current_session |-> 0, messages |-> <<>>]

(* no prompt has been handled by the browser session yet *)
NotHandling == [session_id |-> 0, validate_gemini_key |-> FALSE,
                validate_groq_key |-> FALSE]

(* no call has been made on the store yet *)
NoCall == [op |-> "none", session_id |-> 0, arg |-> <<>>, result |-> <<>>]

InitState ==
    /\ pc = "START"
    /\ query = <<>>
    /\ agent_response = <<>>
    /\ relevant_documents = <<>>
    /\ filter_model = "unset"
    /\ basic_model = "unset"
    /\ agent_metadata = None
    /\ documents = <<>>
    /\ filtered_documents = <<>>
    /\ idx = 0
    /\ graded = <<>>
    /\ trace = <<>>
    /\ gen_calls = <<>>
    /\ web_calls = <<>>
    /\ web_raw = <<>>
    /\ submitted = <<>>
    /\ candidate_documents = <<>>
    /\ error = "none"
    /\ run = 0
    /\ retrieval_calls = 0
    /\ grade_calls = 0
    /\ rewrite_calls = <<>>
    /\ store_memo = <<>>
    /\ grader_memo = [d \in Corpus |-> <<>>]
    /\ first_filtered = <<>>
    /\ in_flight = 0
    /\ since_call = <<>>
    /\ grade_args = <<>>
    /\ db = [sessions |-> {}, messages |-> <<>>, seq |-> 0]
    /\ issued = 0
    /\ session_state = [b \in Browsers |-> NoSessionState]
    /\ ui_pc = [b \in Browsers |-> "closed"]
    /\ handling = [b \in Browsers |-> NotHandling]
    /\ call = NoCall

Init == InitState /\ deterministic = FALSE /\ invocations = MaxRuns

(* the same graph driven with one query against an unchanged store and a  *)
(* grading model whose answer is a function of the document and the query *)
InitDeterministic ==
    InitState /\ deterministic = TRUE /\ invocations = MaxRuns

(* the graph as app.py uses it: built anew in every run of the script and  *)
(* invoked once for the prompt of that run                                 *)
InitOnce == InitState /\ deterministic = FALSE /\ invocations = 1

Channels == <<query, agent_response, relevant_documents, filter_model,
              basic_model, agent_metadata>>
Locals == <<documents, filtered_documents, idx>>
History == <<graded, trace, gen_calls, web_calls, web_raw, submitted,
             candidate_documents, error>>
Calls == <<retrieval_calls, grade_calls, rewrite_calls>>
Oracle == <<deterministic, invocations, store_memo, grader_memo,
            first_filtered>>
Grading == <<in_flight, since_call, grade_args>>
UI == <<db, issued, session_state, ui_pc, handling, call>>
Workflow == <<pc, Channels, Locals, History, run, Calls, Oracle, Grading>>
Browser == <<issued, session_state, ui_pc, handling>>

(* an exception of get_model that the graph runner would swallow *)
RaiseIgnoredAtGetModel(e) ==
    /\ pc' = IF pc = "get_model" THEN "get_relevant_documents" ELSE "failed"
    /\ error' = e

(* an exception of the retrieval that the graph runner would swallow *)
RaiseIgnoredAtRetrieval(e) ==
    /\ pc' = IF pc = "get_relevant_documents"
             THEN "grade_and_filter_documents" ELSE "failed"
    /\ error' = e

(* an exception of the grader that leaves the loop running *)
RaiseIgnoredAtGrading(e) ==
    /\ pc' = IF pc = "grade_loop" THEN "grade_loop" ELSE "failed"
    /\ error' = e

(* a node raised: the invocation ends, the channels keep the last checkpoint *)
Raise(e) ==
    /\ pc' = "failed"
    /\ error' = e

(* compiled_graph.invoke({"query": prompt}, config): the input overwrites  *)
(* the query channel, every other channel keeps the checkpointed value     *)
Invoke ==
    /\ pc \in {"START", "END", "failed"}
    /\ run < invocations
    /\ \E prompt \in Prompts :
         /\ deterministic /\ run > 0 => prompt = submitted
         /\ query' = prompt
         /\ submitted' = prompt
    /\ run' = run + 1
    /\ pc' = Edge("START")
    /\ documents' = <<>> /\ filtered_documents' = <<>> /\ idx' = 0
    /\ graded' = <<>> /\ trace' = <<>> /\ gen_calls' = <<>>
    /\ web_calls' = <<>> /\ web_raw' = <<>>
    /\ candidate_documents' = <<>> /\ error' = "none"
    /\ retrieval_calls' = 0 /\ grade_calls' = 0 /\ rewrite_calls' = <<>>
    /\ in_flight' = 0 /\ since_call' = <<>> /\ grade_args' = <<>>
    /\ UNCHANGED <<UI, agent_response, relevant_documents, filter_model,
                   basic_model, agent_metadata, Oracle>>

GetModel ==
    /\ pc = "get_model"
    /\ filter_model' = ModelName
    /\ basic_model' = ModelName
    /\ pc' = Edge("get_model")
    /\ trace' = Append(trace, "get_model")
    /\ UNCHANGED <<UI, Grading, query, agent_response, relevant_documents, agent_metadata,
                   Locals, graded, gen_calls, web_calls, web_raw, submitted,
                   candidate_documents, error, run, Calls, Oracle>>

(* a model handle cannot be built (lines 53-63 raise) *)
GetModelFails ==
    /\ pc = "get_model"
    /\ Raise("configuration_error")
    /\ UNCHANGED <<UI, Grading, Channels, Locals, graded, trace, gen_calls, web_calls,
                   web_raw, submitted, candidate_documents, run, Calls,
                   Oracle>>

GetRelevantDocuments ==
    /\ pc = "get_relevant_documents"
    /\ \E results \in ChromaResults :
         /\ deterministic /\ store_memo # <<>> => results = store_memo[1]
         /\ store_memo' = IF deterministic THEN <<results>> ELSE store_memo
         /\ relevant_documents' = retrieval(results)
         /\ candidate_documents' = retrieval(results)
    /\ retrieval_calls' = retrieval_calls + 1
    /\ pc' = Edge("get_relevant_documents")
    /\ trace' = Append(trace, "get_relevant_documents")
    /\ UNCHANGED <<UI, Grading, query, agent_response, filter_model, basic_model,
                   agent_metadata, Locals, graded, gen_calls, web_calls,
                   web_raw, submitted, error, run, grade_calls, rewrite_calls,
                   deterministic, invocations, grader_memo,
                   first_filtered>>

GetRelevantDocumentsFails ==
    /\ pc = "get_relevant_documents"
    /\ retrieval_calls' = retrieval_calls + 1
    /\ Raise("retrieval_error")
    /\ UNCHANGED <<UI, Grading, Channels, Locals, graded, trace, gen_calls, web_calls,
                   web_raw, submitted, candidate_documents, run, grade_calls,
                   rewrite_calls, Oracle>>

(* a grade step that passes the retrieved list on ungraded once the       *)
(* checkpoint already holds an answer                                      *)
GradeStartSkipsWhenAnswered ==
    /\ pc = "grade_and_filter_documents"
    /\ documents' = relevant_documents
    /\ IF agent_response = <<>>
       THEN filtered_documents' = <<>> /\ idx' = 0
       ELSE /\ filtered_documents' = relevant_documents
            /\ idx' = Len(relevant_documents)
    /\ pc' = "grade_loop"
    /\ UNCHANGED <<UI, Grading, Channels, History, run, Calls, Oracle>>

(* lines 85-97 *)
GradeStart ==
    /\ pc = "grade_and_filter_documents"
    /\ filtered_documents' = <<>>
    /\ documents' = relevant_documents
    /\ idx' = 0
    /\ pc' = "grade_loop"
    /\ UNCHANGED <<UI, Grading, Channels, History, run, Calls, Oracle>>

(* a loop that sends the next request without waiting for the answer to   *)
(* the one before                                                          *)
GradeCallEager ==
    /\ pc = "grade_loop"
    /\ grade_calls < Len(documents)
    /\ in_flight' = in_flight + 1
    /\ grade_calls' = grade_calls + 1
    /\ grade_args' = Append(grade_args, documents[grade_calls + 1])
    /\ since_call' = Some(0)
    /\ UNCHANGED <<UI, pc, Channels, Locals, History, run, retrieval_calls,
                   rewrite_calls, Oracle>>

(* line 100: retrieval_grader.invoke is called with the next document and  *)
(* blocks until the answer is there                                        *)
GradeCall ==
    /\ pc = "grade_loop"
    /\ idx < Len(documents)
    /\ in_flight = 0
    /\ in_flight' = in_flight + 1
    /\ grade_calls' = grade_calls + 1
    /\ grade_args' = Append(grade_args, documents[idx + 1])
    /\ since_call' = Some(0)
    /\ UNCHANGED <<UI, pc, Channels, Locals, History, run, retrieval_calls,
                   rewrite_calls, Oracle>>

(* the rest of the iteration, lines 100-103: the grader answers after some *)
(* time, the loop sleeps, the document is kept or dropped                  *)
GradeDocument ==
    /\ pc = "grade_loop"
    /\ in_flight > 0
    /\ in_flight' = in_flight - 1
    /\ \E raw \in RawGraderOutputs, d \in CallDurations :
         LET grader_response == ParseGrade(raw)
             document == documents[idx + 1]
         IN /\ deterministic /\ grader_memo[document] # <<>> =>
                  raw = grader_memo[document][1]
            /\ grader_memo' = IF deterministic
                              THEN [grader_memo EXCEPT ![document] = <<raw>>]
                              ELSE grader_memo
            /\ graded' = Append(graded, raw)
            /\ IF grader_response.ok
               THEN /\ filtered_documents' =
                          KeepDocument(grader_response, filtered_documents,
                                       document)
                    /\ idx' = idx + 1
                    /\ since_call' = Some(sleep(since_call[1] + d, GradeDelay))
                    /\ UNCHANGED <<pc, error>>
               ELSE /\ Raise("OutputParserException")
                    /\ since_call' = <<>>
                    /\ UNCHANGED <<filtered_documents, idx>>
    /\ UNCHANGED <<UI, Channels, documents, trace, gen_calls, web_calls, web_raw,
                   submitted, candidate_documents, run, Calls, grade_args,
                   deterministic, invocations, store_memo, first_filtered>>

(* a grading call that is issued again after it failed *)
GradeCallFailsRetry ==
    /\ pc = "grade_loop"
    /\ in_flight > 0
    /\ grade_calls' = grade_calls + 1
    /\ grade_args' = Append(grade_args, documents[idx + 1])
    /\ since_call' = Some(0)
    /\ UNCHANGED <<pc, error, in_flight>>
    /\ UNCHANGED <<UI, Channels, Locals, graded, trace, gen_calls, web_calls,
                   web_raw, submitted, candidate_documents, run,
                   retrieval_calls, rewrite_calls, Oracle>>

(* the grading call itself fails (network or provider error) *)
GradeCallFails ==
    /\ pc = "grade_loop"
    /\ in_flight > 0
    /\ in_flight' = in_flight - 1
    /\ since_call' = <<>>
    /\ Raise("grader_call_error")
    /\ UNCHANGED <<UI, Channels, Locals, graded, trace, gen_calls, web_calls,
                   web_raw, submitted, candidate_documents, run, Calls,
                   grade_args, Oracle>>

(* lines 105-106, then the conditional edge is evaluated *)
GradeEnd ==
    /\ pc = "grade_loop"
    /\ idx = Len(documents)
    /\ relevant_documents' = filtered_documents
    /\ first_filtered' =
          IF deterministic /\ first_filtered = <<>>
          THEN <<[run |-> run, documents |-> filtered_documents]>>
          ELSE first_filtered
    /\ pc' = "decide"
    /\ trace' = Append(trace, "grade_and_filter_documents")
    /\ since_call' = <<>>
    /\ UNCHANGED <<UI, in_flight, grade_args, query, agent_response, filter_model, basic_model,
                   agent_metadata, Locals, graded, gen_calls, web_calls,
                   web_raw, submitted, candidate_documents, error, run, Calls,
                   deterministic, invocations, store_memo, grader_memo>>

Decide ==
    /\ pc = "decide"
    /\ pc' = ConditionalEdge(decide_generation_source(relevant_documents))
    /\ trace' = Append(trace, "decide")
    /\ UNCHANGED <<UI, Grading, Channels, Locals, graded, gen_calls, web_calls, web_raw,
                   submitted, candidate_documents, error, run, Calls, Oracle>>

GenerateAnswerFromDocuments ==
    /\ pc = "generate_answer_from_documents"
    /\ gen_calls' = Append(gen_calls,
                           [query |-> query, documents |-> relevant_documents,
                            prompt |-> augmented(query, relevant_documents)])
    /\ \E content \in GenAnswers : agent_response' = <<content>>
    /\ agent_metadata' = Metadata(relevant_documents)
    /\ pc' = Edge("generate_answer_from_documents")
    /\ trace' = Append(trace, "generate_answer_from_documents")
    /\ UNCHANGED <<UI, Grading, query, relevant_documents, filter_model, basic_model,
                   Locals, graded, web_calls, web_raw, submitted,
                   candidate_documents, error, run, Calls, Oracle>>

GenerationFails ==
    /\ pc = "generate_answer_from_documents"
    /\ gen_calls' = Append(gen_calls,
                           [query |-> query, documents |-> relevant_documents,
                            prompt |-> augmented(query, relevant_documents)])
    /\ Raise("generation_error")
    /\ UNCHANGED <<UI, Grading, Channels, Locals, graded, trace, web_calls, web_raw,
                   submitted, candidate_documents, run, Calls, Oracle>>

TransformQuery ==
    /\ pc = "transform_query"
    /\ rewrite_calls' = Append(rewrite_calls, query)
    /\ \E better_query \in Strings : query' = better_query
    /\ pc' = Edge("transform_query")
    /\ trace' = Append(trace, "transform_query")
    /\ UNCHANGED <<UI, Grading, agent_response, relevant_documents, filter_model,
                   basic_model, agent_metadata, Locals, graded, gen_calls,
                   web_calls, web_raw, submitted, candidate_documents, error,
                   run, retrieval_calls, grade_calls, Oracle>>

TransformQueryFails ==
    /\ pc = "transform_query"
    /\ rewrite_calls' = Append(rewrite_calls, query)
    /\ Raise("rewrite_error")
    /\ UNCHANGED <<UI, Grading, Channels, Locals, graded, trace, gen_calls, web_calls,
                   web_raw, submitted, candidate_documents, run,
                   retrieval_calls, grade_calls, Oracle>>

GenerateAnswerFromWebSearch ==
    /\ pc = "generate_answer_from_web_search"
    /\ \E short_query \in summarize_text(query, SummaryLength, NPhrases) :
         web_calls' = Append(web_calls, short_query)
    /\ \E response_text \in WebAnswers :
         /\ web_raw' = Append(web_raw, response_text)
         /\ agent_response' = FallbackResponse(response_text)
    /\ agent_metadata' = None
    /\ pc' = Edge("generate_answer_from_web_search")
    /\ trace' = Append(trace, "generate_answer_from_web_search")
    /\ UNCHANGED <<UI, Grading, query, relevant_documents, filter_model, basic_model,
                   Locals, graded, gen_calls, submitted, candidate_documents,
                   error, run, Calls, Oracle>>

WebSearchFails ==
    /\ pc = "generate_answer_from_web_search"
    /\ \E short_query \in summarize_text(query, SummaryLength, NPhrases) :
         web_calls' = Append(web_calls, short_query)
    /\ Raise("fallback_error")
    /\ UNCHANGED <<UI, Grading, Channels, Locals, graded, trace, gen_calls, web_raw,
                   submitted, candidate_documents, run, Calls, Oracle>>

Next ==
    \/ Invoke
    \/ GetModel
    \/ GetModelFails
    \/ GetRelevantDocuments
    \/ GetRelevantDocumentsFails
    \/ GradeStart
    \/ GradeCall
    \/ GradeDocument
    \/ GradeCallFails
    \/ GradeEnd
    \/ Decide
    \/ GenerateAnswerFromDocuments
    \/ GenerationFails
    \/ TransformQuery
    \/ TransformQueryFails
    \/ GenerateAnswerFromWebSearch
    \/ WebSearchFails

Spec == Init /\ [][Next]_vars

SpecDeterministic == InitDeterministic /\ [][Next]_vars

(* the steps of an invocation under way: every one of them is a node of   *)
(* the graph running, or an external call returning or failing            *)
Step ==
    \/ GetModel
    \/ GetModelFails
    \/ GetRelevantDocuments
    \/ GetRelevantDocumentsFails
    \/ GradeStart
    \/ GradeCall
    \/ GradeDocument
    \/ GradeCallFails
    \/ GradeEnd
    \/ Decide
    \/ GenerateAnswerFromDocuments
    \/ GenerationFails
    \/ TransformQuery
    \/ TransformQueryFails
    \/ GenerateAnswerFromWebSearch
    \/ WebSearchFails

(* the graph runner keeps running the next node, and every external call  *)
(* eventually returns or fails                                             *)
SpecFair == InitOnce /\ [][Next]_vars /\ WF_vars(Step)

----------------------------------------------------------------------------
(* Chat store: src/core/sqlite_chat_storage.py.  The database is a record   *)
(* of the sessions table (a set of rows, id being the primary key), the    *)
(* messages table (rows in rowid order) and the AUTOINCREMENT counter.     *)
(* Foreign keys are declared but not enforced (no PRAGMA foreign_keys).    *)

DefaultNPhrases == 5    \* summarize_text(..., n_phrases=5)

NewChatName == <<"new", "chat">>

(* A dict is a function of its keys.  A key that is a string is the string *)
(* itself; the integer key 1 is written "#1", since the keys of one dict   *)
(* must be of one kind to be compared.                                     *)
IntKey == "#1"

(* the key json.dumps writes for a key of a dict: a key that is not a      *)
(* string is converted to one                                              *)
JsonKey(k) == IF k = IntKey THEN "1" ELSE k

(* json.dumps of a metadata dict: the JSON text, given by the object it    *)
(* denotes.  The values the dicts hold here are lists of strings, which    *)
(* are written as arrays of strings.                                       *)
json_dumps(value) ==
    <<"json", [k \in {JsonKey(j) : j \in DOMAIN value} |->
                 value[CHOOSE j \in DOMAIN value : JsonKey(j) = k]]>>

(* json.loads: the dict of the object, every key a string *)
json_loads(text) == text[2]

(* an INSERT OR REPLACE in the place of lines 76-83 *)
create_session_replaces(d, session_id, name, now) ==
    [d EXCEPT !.sessions =
        {s \in @ : s.id # session_id}
        \cup {[id |-> session_id, name |-> name, created_at |-> now]}]

(* lines 76-83: the database after the call; now is what datetime('now')  *)
(* gives when the row is inserted                                          *)
create_session(d, session_id, name, now) ==
    IF \E s \in d.sessions : s.id = session_id
    THEN d
    ELSE [d EXCEPT !.sessions =
            @ \cup {[id |-> session_id, name |-> name, created_at |-> now]}]

(* line 84: what create_session returns *)
create_session_result(d, session_id, name) == session_id

(* lines 121-124: the row as a dict, or None *)
get_session(d, session_id) ==
    LET rows == {s \in d.sessions : s.id = session_id}
    IN IF rows # {} THEN Some(CHOOSE row \in rows : TRUE) ELSE None

(* lines 104-107, new_name being the summary the keyword summarizer made *)
update_session_name(d, session_id, new_name) ==
    [d EXCEPT !.sessions =
        {IF s.id = session_id THEN [s EXCEPT !.name = new_name] ELSE s :
            s \in @}]

(* the names line 104 can compute from a prompt *)
SessionNames(content) ==
    summarize_text(content, SummaryLength, DefaultNPhrases)

(* lines 114-117, the order of the rows left out *)
list_sessions(d) == d.sessions

(* line 130 alone, the messages left in place *)
delete_session_keeps_messages(d, session_id) ==
    [d EXCEPT !.sessions = {s \in @ : s.id # session_id}]

(* lines 128-131 *)
delete_session(d, session_id) ==
    [d EXCEPT !.messages = SelectSeq(@, LAMBDA m : m.session_id # session_id),
              !.sessions = {s \in @ : s.id # session_id}]

(* sessions s LEFT JOIN messages m ON s.id = m.session_id: a session with  *)
(* no message is paired once, with NULL                                    *)
LeftJoin(S, M) ==
    {[s |-> s, m |-> Some(m)] :
        <<s, m>> \in {x \in S \X M : x[1].id = x[2].session_id}}
    \cup {[s |-> s, m |-> None] :
            s \in {t \in S : \A m \in M : m.session_id # t.id}}

(* lines 141-149 *)
list_empty_sessions(d) ==
    {j.s : j \in {k \in LeftJoin(d.sessions, Range(d.messages)) : k.m = None}}

(* a statement that deletes the sessions that do have messages *)
delete_empty_sessions_inverted(d) ==
    LET ids == {j.s.id : j \in {k \in LeftJoin(d.sessions, Range(d.messages)) :
                                    k.m # None}}
    IN [db |-> [d EXCEPT !.sessions = {s \in @ : s.id \notin ids}],
        deleted_count |-> Cardinality({s \in d.sessions : s.id \in ids})]

(* lines 158-170: the database after the statement, and cur.rowcount *)
delete_empty_sessions(d) ==
    LET ids == {j.s.id : j \in {k \in LeftJoin(d.sessions, Range(d.messages)) :
                                    k.m = None}}
    IN [db |-> [d EXCEPT !.sessions = {s \in @ : s.id \notin ids}],
        deleted_count |-> Cardinality({s \in d.sessions : s.id \in ids})]

(* lines 186-193; the row is inserted whether or not the session exists *)
add_message(d, session_id, role, content, metadata) ==
    LET metadata_json == IF metadata # None
                         THEN Some(json_dumps(metadata[1])) ELSE None
    IN [d EXCEPT !.seq = @ + 1,
                 !.messages = Append(@, [id |-> d.seq + 1,
                                         session_id |-> session_id,
                                         role |-> role,
                                         content |-> content,
                                         metadata |-> metadata_json])]

add_user_message(d, session_id, content) ==
    add_message(d, session_id, "user", content, None)

add_ai_message(d, session_id, content, metadata) ==
    add_message(d, session_id, "assistant", content, metadata)

(* WHERE session_id = ? on the messages table *)
WhereSession(d, session_id) ==
    {m \in Range(d.messages) : m.session_id = session_id}

(* ORDER BY id ASC *)
RECURSIVE OrderByIdAsc(_)
OrderByIdAsc(rows) ==
    IF rows = {} THEN <<>>
    ELSE LET first == CHOOSE r \in rows : \A o \in rows : r.id <= o.id
         IN <<first>> \o OrderByIdAsc(rows \ {first})

(* ORDER BY id DESC *)
RECURSIVE OrderByIdDesc(_)
OrderByIdDesc(rows) ==
    IF rows = {} THEN <<>>
    ELSE LET first == CHOOSE r \in rows : \A o \in rows : r.id >= o.id
         IN <<first>> \o OrderByIdDesc(rows \ {first})

(* LIMIT ?: a negative limit is no limit *)
Limit(rows, n) ==
    IF n < 0 \/ n >= Len(rows) THEN rows ELSE SubSeq(rows, 1, n)

(* list(rows)[::-1] *)
Reversed(rows) == [i \in 1..Len(rows) |-> rows[Len(rows) + 1 - i]]

(* lines 211-214 and 229-232: the selected columns as a dict, the          *)
(* metadata column decoded                                                 *)
RowDict(r) ==
    [id |-> r.id, role |-> r.role, content |-> r.content,
     metadata |-> IF r.metadata # None
                  THEN Some(json_loads(r.metadata[1])) ELSE None]

(* the rows with the metadata column as it is stored, not decoded *)
get_messages_raw(d, session_id) ==
    LET rows == OrderByIdAsc(WhereSession(d, session_id))
    IN [i \in 1..Len(rows) |->
          [id |-> rows[i].id, role |-> rows[i].role,
           content |-> rows[i].content, metadata |-> rows[i].metadata]]

(* lines 204-215 *)
get_messages(d, session_id) ==
    LET rows == OrderByIdAsc(WhereSession(d, session_id))
    IN [i \in 1..Len(rows) |-> RowDict(rows[i])]

(* the rows of the query, not reversed *)
get_last_n_messages_newest_first(d, session_id, n) ==
    LET rows == Limit(OrderByIdDesc(WhereSession(d, session_id)), n)
    IN [i \in 1..Len(rows) |-> RowDict(rows[i])]

(* lines 220-233 *)
get_last_n_messages(d, session_id, n) ==
    LET rows == Reversed(Limit(OrderByIdDesc(WhereSession(d, session_id)), n))
    IN [i \in 1..Len(rows) |-> RowDict(rows[i])]

----------------------------------------------------------------------------
(* User interface: src/ui_app/app.py and src/ui_app/ui_component.py.  One  *)
(* run of the script serves one event of one browser session; the runs of  *)
(* different browser sessions interleave at the calls of the chat store.   *)

CannotUnderstand == <<"I can't understand the question.">>
EmptyDict == Some(<<>>)

(* the dict has at least one key *)
DictTruthy(v) == v # None /\ v[1] # <<>>

(* what compiled_graph.invoke returns at END: the final channels of the    *)
(* generation path, with the metadata of the surviving documents, or of    *)
(* the fallback path, with agent_metadata None                             *)
InvokeResults ==
    {[agent_response |-> <<content>>, agent_metadata |-> Metadata(<<d>>)] :
        content \in GenAnswers, d \in {Doc("t1", "cairo university")}}
    \cup {[agent_response |-> FallbackResponse(response_text),
           agent_metadata |-> None] : response_text \in {"w1"}}

(* the prompts typed into st.chat_input *)
UIPrompts == {<<"x">>}

SafeName == [u \in {"cairo university", "helwan university"} |->
               IF u = "cairo university" THEN "cairo_university"
               ELSE "helwan_university"]

(* ui_component.py lines 126-129 *)
get_pdf_path(university_name) ==
    <<"data", "docs", SafeName[university_name], ".pdf">>

(* st.pdf of line 144 shows the file or raises (file missing, viewer       *)
(* component not installed)                                                *)
PdfOutcomes == {"shown", "raises"}

(* the project of a row on the keys the script reads *)
LocalMessage(role, content) == [role |-> role, content |-> content]

LocalMessages(rows) ==
    [i \in 1..Len(rows) |-> LocalMessage(rows[i].role, rows[i].content)]

(* the page a run of the script leaves on screen: the chat input enabled   *)
(* ("idle", line 107) or disabled (line 154)                               *)
Rendered == {"idle", "disabled"}

(* what validate_gemini_key and validate_groq_key can return in one run:   *)
(* True, or False when the call to the provider raises                     *)
KeyValidations == BOOLEAN

(* a handler that asks for one valid key only *)
KeysValidatedEither(validate_gemini_key, validate_groq_key) ==
    validate_gemini_key \/ validate_groq_key

(* the condition of lines 73 and 106 *)
KeysValidated(validate_gemini_key, validate_groq_key) ==
    validate_gemini_key /\ validate_groq_key

(* _init_session_state line 27, first run of the script in a browser       *)
(* session: the sessions without messages are deleted                      *)
InitSessionStateDelete(b) ==
    /\ ui_pc[b] = "closed"
    /\ issued < MaxSessions
    /\ db' = delete_empty_sessions(db).db
    /\ ui_pc' = [ui_pc EXCEPT ![b] = "loading"]
    /\ UNCHANGED <<issued, session_state, handling, Workflow, call>>

(* _init_session_state lines 29-32; time_random_id builds the id from the  *)
(* clock, which is modelled by the count of the ids handed out, and so is  *)
(* the created_at of the row                                               *)
InitSessionStateCreate(b) ==
    /\ ui_pc[b] = "loading"
    /\ LET new_id == issued + 1
       IN /\ issued' = new_id
          /\ db' = create_session(db, new_id, NewChatName, new_id)
          /\ session_state' = [session_state EXCEPT ![b] =
                [has |-> TRUE, current_session |-> new_id, messages |-> <<>>]]
    /\ ui_pc' = [ui_pc EXCEPT ![b] = "idle"]
    /\ UNCHANGED <<handling, Workflow, call>>

(* the New Chat button: start_new_session, lines 91-96 *)
StartNewSession(b) ==
    /\ ui_pc[b] \in Rendered
    /\ issued < MaxSessions
    /\ LET new_id == issued + 1
           d1 == IF Len(session_state[b].messages) = 0
                 THEN delete_session(db, session_state[b].current_session)
                 ELSE db
       IN /\ issued' = new_id
          /\ db' = create_session(d1, new_id, NewChatName, new_id)
          /\ session_state' = [session_state EXCEPT ![b] =
                [has |-> TRUE, current_session |-> new_id, messages |-> <<>>]]
    /\ UNCHANGED <<ui_pc, handling, Workflow, call>>

(* a button of the sidebar is clicked: display_previous_sessions, 111-114 *)
DisplayPreviousSessions(b) ==
    /\ ui_pc[b] \in Rendered
    /\ \E session \in list_sessions(db) :
         /\ session_state' = [session_state EXCEPT ![b] =
               [has |-> TRUE, current_session |-> session.id,
                messages |-> LocalMessages(get_messages(db, session.id))]]
    /\ UNCHANGED <<db, issued, ui_pc, handling, Workflow, call>>

(* the page is reloaded: Streamlit starts a new session state, and the     *)
(* next run of the script takes the branch of line 25 again                *)
Reload(b) ==
    /\ ui_pc[b] \in Rendered
    /\ session_state' = [session_state EXCEPT ![b] = NoSessionState]
    /\ ui_pc' = [ui_pc EXCEPT ![b] = "closed"]
    /\ UNCHANGED <<db, issued, handling, Workflow, call>>

(* chat handler, lines 107-120: a prompt is submitted, the session is      *)
(* named after the first prompt, the user message is stored                *)
SendPrompt(b) ==
    /\ ui_pc[b] = "idle"
    /\ db.seq < MaxMessages
    /\ \E prompt \in UIPrompts, new_name \in Strings,
          validate_gemini_key \in KeyValidations,
          validate_groq_key \in KeyValidations :
         LET session_id == session_state[b].current_session
             d1 == IF Len(session_state[b].messages) = 0
                   THEN update_session_name(db, session_id, new_name)
                   ELSE db
         IN /\ KeysValidated(validate_gemini_key, validate_groq_key)
            /\ new_name \in SessionNames(prompt)
            /\ db' = add_user_message(d1, session_id, prompt)
            /\ session_state' = [session_state EXCEPT ![b].messages =
                  Append(@, LocalMessage("user", prompt))]
            /\ handling' = [handling EXCEPT ![b] =
                  [session_id |-> session_id,
                   validate_gemini_key |-> validate_gemini_key,
                   validate_groq_key |-> validate_groq_key]]
    /\ ui_pc' = [ui_pc EXCEPT ![b] = "invoking"]
    /\ UNCHANGED <<issued, Workflow, call>>

(* lines 47-75 and 153-154: a run of the script, started by any event of   *)
(* the page, a submitted prompt included, in which the validation of a     *)
(* key fails: the graph is not built, the handler is skipped and the chat  *)
(* input is shown disabled                                                 *)
InputDisabled(b) ==
    /\ ui_pc[b] = "idle"
    /\ \E validate_gemini_key \in KeyValidations,
          validate_groq_key \in KeyValidations :
         ~KeysValidated(validate_gemini_key, validate_groq_key)
    /\ ui_pc' = [ui_pc EXCEPT ![b] = "disabled"]
    /\ UNCHANGED <<db, issued, session_state, handling, Workflow, call>>

(* lines 47-75 and 106-107: a run in which both keys are validated and no  *)
(* prompt is submitted; the chat input is shown enabled                    *)
InputEnabled(b) ==
    /\ ui_pc[b] = "disabled"
    /\ \E validate_gemini_key \in KeyValidations,
          validate_groq_key \in KeyValidations :
         KeysValidated(validate_gemini_key, validate_groq_key)
    /\ ui_pc' = [ui_pc EXCEPT ![b] = "idle"]
    /\ UNCHANGED <<db, issued, session_state, handling, Workflow, call>>

(* lines 138-152 with the answer and the metadata of lines 128-136: the    *)
(* answer is shown, the document of the first university is displayed      *)
(* when there is metadata, the assistant message is stored.  An exception  *)
(* of lines 143-144 ends the run of the script.                            *)
FinishPrompt(b, response, metadata, pdf) ==
    LET session_id == handling[b].session_id
        raises == /\ DictTruthy(metadata)
                  /\ \/ metadata[1].university_name = <<>>
                     \/ pdf = "raises"
    IN /\ ui_pc' = [ui_pc EXCEPT ![b] = "idle"]
       /\ IF raises
          THEN /\ handling' = [handling EXCEPT ![b] = NotHandling]
               /\ UNCHANGED <<db, session_state>>
          ELSE /\ session_state' = [session_state EXCEPT ![b].messages =
                     Append(@, LocalMessage("assistant", response))]
               /\ db' = add_ai_message(db, session_id, response,
                                       metadata)
               /\ handling' = [handling EXCEPT ![b] = NotHandling]
       /\ UNCHANGED <<issued, Workflow, call>>

(* lines 129-131: the graph reaches END *)
InvokeReturns(b) ==
    /\ ui_pc[b] = "invoking"
    /\ \E result \in InvokeResults, pdf \in PdfOutcomes :
         /\ DictTruthy(result.agent_metadata) \/ pdf = "shown"
         /\ FinishPrompt(b, result.agent_response,
                         result.agent_metadata, pdf)

(* an exception of the graph that the handler does not catch *)
InvokeRaisesUncaught(b) ==
    /\ ui_pc[b] = "invoking"
    /\ ui_pc' = [ui_pc EXCEPT ![b] = "idle"]
    /\ handling' = [handling EXCEPT ![b] = NotHandling]
    /\ UNCHANGED <<db, session_state, issued, Workflow, call>>

(* lines 132-136: a node of the graph raised *)
InvokeRaises(b) ==
    /\ ui_pc[b] = "invoking"
    /\ FinishPrompt(b, CannotUnderstand, EmptyDict, "shown")

NextUI ==
    \E b \in Browsers :
        \/ InitSessionStateDelete(b)
        \/ InitSessionStateCreate(b)
        \/ StartNewSession(b)
        \/ DisplayPreviousSessions(b)
        \/ Reload(b)
        \/ SendPrompt(b)
        \/ InputDisabled(b)
        \/ InputEnabled(b)
        \/ InvokeReturns(b)
        \/ InvokeRaises(b)

SpecUI == Init /\ [][NextUI]_vars

----------------------------------------------------------------------------
(* A client of SQLiteChatStorage that calls the methods of the class in    *)
(* any order, with any arguments of the small sets below.                  *)

StoreIds == {1, 2}

(* the name and the value of datetime('now') of a create_session call: a  *)
(* later call gives another name                                           *)
StoreCreations == {[name |-> NewChatName, now |-> 1],
                   [name |-> <<"x">>, now |-> 2]}

StoreContent == <<"g1">>

(* no dict, the empty dict, the dict generate_answer_from_documents        *)
(* builds, and a dict with the integer key 1                               *)
MetadataInputs ==
    {None, EmptyDict, Metadata(<<Doc("t1", "cairo university")>>),
     Some([k \in {IntKey} |-> <<"cairo university">>])}

(* the values of n: negative, none, fewer than, as many as and more than   *)
(* the rows                                                                *)
LimitInputs == (0 - 1)..(MaxRows + 1)

(* the method called, its session_id, its other argument of interest (the *)
(* name, the metadata, n) and what it returned                             *)
Called(op, session_id, arg, result) ==
    [op |-> op, session_id |-> session_id, arg |-> arg, result |-> result]

CallCreateSession(session_id, c) ==
    /\ db' = create_session(db, session_id, c.name, c.now)
    /\ call' = Called("create_session", session_id, c.name,
                      Some(create_session_result(db, session_id, c.name)))
    /\ UNCHANGED <<Browser, Workflow>>

CallGetSession(session_id) ==
    /\ call' = Called("get_session", session_id, None,
                      get_session(db, session_id))
    /\ UNCHANGED <<db, Browser, Workflow>>

CallDeleteSession(session_id) ==
    /\ db' = delete_session(db, session_id)
    /\ call' = Called("delete_session", session_id, None, None)
    /\ UNCHANGED <<Browser, Workflow>>

(* add_ai_message, which returns cur.lastrowid (line 193) *)
CallAddMessage(session_id, metadata) ==
    /\ db.seq < MaxRows
    /\ db' = add_ai_message(db, session_id, StoreContent, metadata)
    /\ call' = Called("add_ai_message", session_id, metadata,
                      Some(db.seq + 1))
    /\ UNCHANGED <<Browser, Workflow>>

CallGetMessages(session_id) ==
    /\ call' = Called("get_messages", session_id, None,
                      get_messages(db, session_id))
    /\ UNCHANGED <<db, Browser, Workflow>>

CallGetLastNMessages(session_id, n) ==
    /\ call' = Called("get_last_n_messages", session_id, n,
                      get_last_n_messages(db, session_id, n))
    /\ UNCHANGED <<db, Browser, Workflow>>

NextStore ==
    \E session_id \in StoreIds :
        \/ \E c \in StoreCreations : CallCreateSession(session_id, c)
        \/ CallGetSession(session_id)
        \/ CallDeleteSession(session_id)
        \/ \E metadata \in MetadataInputs :
              CallAddMessage(session_id, metadata)
        \/ CallGetMessages(session_id)
        \/ \E n \in LimitInputs : CallGetLastNMessages(session_id, n)

SpecStore == Init /\ [][NextStore]_vars

----------------------------------------------------------------------------
(* Properties *)

GeneratePath ==
    <<"get_model", "get_relevant_documents", "grade_and_filter_documents",
      "decide", "generate_answer_from_documents">>

FallbackPath ==
    <<"get_model", "get_relevant_documents", "grade_and_filter_documents",
      "decide", "transform_query", "generate_answer_from_web_search">>

(* the stage a value of pc stands for *)
StageOf(p) == IF p = "grade_loop" THEN "grade_and_filter_documents" ELSE p

GradeDone == "grade_and_filter_documents" \in Range(trace)
OnGeneratePath == "generate_answer_from_documents" \in Range(trace)
OnFallbackPath == "generate_answer_from_web_search" \in Range(trace)

RECURSIVE SelectYes(_, _)
(* the documents whose verdict, at the same position, is "yes" *)
SelectYes(docs, verdicts) ==
    IF docs = <<>> \/ verdicts = <<>> THEN <<>>
    ELSE IF Head(verdicts) = "yes"
         THEN <<Head(docs)>> \o SelectYes(Tail(docs), Tail(verdicts))
         ELSE SelectYes(Tail(docs), Tail(verdicts))

SourceValues(docs) == [i \in 1..Len(docs) |-> docs[i].metadata.source]
UniversityValues(docs) ==
    [i \in 1..Len(docs) |-> docs[i].metadata.university_name]

(* C1: in every invocation the stages completed so far are a prefix of     *)
(* get_model, retrieve, grade, decide, generate or of get_model, retrieve, *)
(* grade, decide, rewrite, fallback; the stage about to run is the next    *)
(* one of such a path; END is reached with exactly one of the two complete *)
(* paths, so generate and fallback never both run and only the step after  *)
(* decide has two possible successors.                                     *)
C1_StageOrder ==
    /\ IsPrefix(trace, GeneratePath) \/ IsPrefix(trace, FallbackPath)
    /\ pc \notin {"START", "END", "failed"} =>
          \/ IsPrefix(Append(trace, StageOf(pc)), GeneratePath)
          \/ IsPrefix(Append(trace, StageOf(pc)), FallbackPath)
    /\ pc = "END" => trace \in {GeneratePath, FallbackPath}
    /\ ~(OnGeneratePath /\ OnFallbackPath)

C1_Witness ==
    /\ pc = "END"
    /\ trace = FallbackPath
    /\ run = 2
    /\ Len(gen_calls) = 0

(* C2: the decide step goes to generate exactly when the graded list is    *)
(* non-empty and to the rewrite step otherwise, and it changes no channel  *)
(* of the workflow state.                                                  *)
C2_DecideRoutesAndIsPure ==
    [][pc = "decide" =>
          /\ UNCHANGED Channels
          /\ pc' = "generate_answer_from_documents" <=> relevant_documents # <<>>
          /\ pc' = "transform_query" <=> relevant_documents = <<>>]_vars

C2_Witness ==
    /\ pc = "generate_answer_from_documents"
    /\ trace[Len(trace)] = "decide"
    /\ Len(relevant_documents) = 2

(* C3: the list being filtered, and the filtered list the grade step       *)
(* stores, are always subsequences of the list retrieval returned, in the  *)
(* retrieval order.                                                        *)
C3_FilteredIsSubsequence ==
    /\ IsSubseq(filtered_documents, candidate_documents)
    /\ GradeDone => IsSubseq(relevant_documents, candidate_documents)

C3_Witness ==
    /\ pc = "decide"
    /\ Len(candidate_documents) = 3
    /\ candidate_documents[1] # candidate_documents[3]
    /\ relevant_documents = <<candidate_documents[1], candidate_documents[3]>>

(* C4: once the grade step has completed, every candidate has a verdict    *)
(* and the stored list is exactly the candidates graded "yes", in          *)
(* retrieval order; every generation call receives exactly that list.      *)
C4_ExactlyTheYesDocuments ==
    /\ GradeDone =>
          /\ Len(graded) = Len(candidate_documents)
          /\ relevant_documents = SelectYes(candidate_documents, graded)
    /\ \A k \in 1..Len(gen_calls) :
          gen_calls[k].documents = SelectYes(candidate_documents, graded)

C4_Witness ==
    /\ pc = "END"
    /\ graded = <<"yes", "no", "yes">>
    /\ Len(gen_calls) = 1
    /\ Len(gen_calls[1].documents) = 2

(* C5: at END the metadata is set exactly when the generation path         *)
(* produced the response, and then the filtered list is non-empty; on the  *)
(* fallback path it is absent.                                             *)
C5_MetadataIffGeneration ==
    pc = "END" =>
        /\ agent_metadata # None <=> OnGeneratePath
        /\ agent_metadata # None => relevant_documents # <<>>
        /\ OnFallbackPath => agent_metadata = None

C5_Witness ==
    /\ pc = "END"
    /\ run = 2
    /\ OnGeneratePath
    /\ agent_metadata # None

(* C6: when at least one retrieved document was graded "yes" and the       *)
(* invocation returns, the metadata is present and both its sources list   *)
(* and its university_name list are non-empty.                             *)
C6_MetadataListsNonEmpty ==
    (pc = "END" /\ "yes" \in Range(graded)) =>
        /\ agent_metadata # None
        /\ agent_metadata[1].sources # <<>>
        /\ agent_metadata[1].university_name # <<>>

C6_Witness ==
    /\ pc = "END"
    /\ graded = <<"no", "yes">>
    /\ agent_metadata # None

(* C7: on the generation path the sources of the metadata are the sources  *)
(* of the surviving documents in first-seen order without repeats.         *)
C7_SourcesDeduplicated ==
    (pc = "END" /\ OnGeneratePath) =>
        /\ agent_metadata # None
        /\ agent_metadata[1].sources =
              OrderedDedup(SourceValues(relevant_documents))
        /\ NoDuplicates(agent_metadata[1].sources)

(* C8: on the generation path the university names of the metadata are the *)
(* names of the surviving documents in first-seen order, each exactly once *)
(* at the position of its first occurrence.                                *)
C8_UniversitiesDeduplicated ==
    (pc = "END" /\ OnGeneratePath) =>
        /\ agent_metadata # None
        /\ agent_metadata[1].university_name =
              OrderedDedup(UniversityValues(relevant_documents))
        /\ NoDuplicates(agent_metadata[1].university_name)

C8_Witness ==
    /\ pc = "END"
    /\ OnGeneratePath
    /\ UniversityValues(relevant_documents) =
          <<"cairo university", "helwan university", "cairo university">>
    /\ agent_metadata[1].university_name =
          <<"cairo university", "helwan university">>

(* C9: when grading leaves no survivor (also when nothing was retrieved)   *)
(* and the invocation returns, the metadata is absent and the response is  *)
(* the fixed preamble followed by the raw output of the fallback model.    *)
C9_FallbackResult ==
    (pc = "END" /\ "yes" \notin Range(graded)) =>
        /\ agent_metadata = None
        /\ Len(web_raw) = 1
        /\ agent_response = <<Preamble>> \o <<web_raw[1]>>

C9_Witness ==
    /\ pc = "END"
    /\ run = 2
    /\ candidate_documents = <<>>
    /\ agent_response = <<Preamble, "w2">>

(* C10: a parse error of the grader on one candidate does not end the      *)
(* invocation: the loop goes on with that candidate left out.              *)
C10_ParseErrorContinues ==
    \A i \in 1..Len(graded) :
        ~ParseGrade(graded[i]).ok =>
            ~(pc = "failed" /\ error = "OutputParserException")

(* the decide step has chosen the rewrite branch in this invocation *)
DecidedRewrite == "decide" \in Range(trace) /\ relevant_documents = <<>>

C12_RewriteIffDecided ==
    /\ Len(rewrite_calls) <= 1
    /\ rewrite_calls # <<>> <=> (DecidedRewrite /\ pc # "transform_query")
    /\ rewrite_calls # <<>> => rewrite_calls[1] = submitted
    /\ rewrite_calls = <<>> => query = submitted
    /\ (pc = "END" /\ OnGeneratePath) =>
          (query = submitted /\ rewrite_calls = <<>>)

C12_Witness ==
    /\ pc = "END"
    /\ OnFallbackPath
    /\ rewrite_calls = <<submitted>>
    /\ query # submitted

(* C13 as stated: the content of every request to the fallback model       *)
(* differs from the query submitted to the invocation.                     *)
C13_FallbackContentDiffers ==
    \A k \in 1..Len(web_calls) : web_calls[k] # submitted

(* C13 amended: a request reaches the fallback model only after the        *)
(* rewriter has been called once with the submitted query; its content may *)
(* equal the submitted query, and then only because the rewriter's output  *)
(* summarizes to it.                                                       *)
C13_FallbackAfterRewrite ==
    \A k \in 1..Len(web_calls) :
        /\ rewrite_calls = <<submitted>>
        /\ "transform_query" \in Range(trace)
        /\ web_calls[k] = submitted =>
              \/ query = submitted
              \/ IsSubseq(submitted, query)

C13_Witness ==
    /\ pc = "END"
    /\ Len(web_calls) = 1
    /\ web_calls[1] = submitted
    /\ query = submitted

(* C14 as stated: one request, whose content is the query channel as the   *)
(* rewriter left it.                                                       *)
C14_FallbackContentIsRewrittenQuery ==
    /\ Len(web_calls) <= 1
    /\ \A k \in 1..Len(web_calls) : web_calls[k] = query

(* C14 amended: one request, whose content is the keyword summary of the   *)
(* rewritten query: a phrase of at most NPhrases of its words that are no  *)
(* stop words, in their order, when it has such words, and otherwise its   *)
(* first SummaryLength characters.                                         *)
C14_FallbackContentIsSummary ==
    /\ Len(web_calls) <= 1
    /\ \A k \in 1..Len(web_calls) :
          LET c == web_calls[k]
          IN IF \E w \in Range(query) : w \notin StopWords
             THEN /\ c # <<>>
                  /\ Range(c) \cap StopWords = {}
                  /\ IsSubseq(c, query)
                  /\ Len(c) <= NPhrases
             ELSE /\ IsPrefix(c, query)
                  /\ 2 * Len(c) - 1 <= SummaryLength
                  /\ Len(c) = Len(query) \/ 2 * Len(c) + 1 > SummaryLength

C14_Witness ==
    /\ pc = "END"
    /\ query = <<"a", "x">>
    /\ web_calls = <<(<<"x">>)>>

(* C15: when retrieval returned no document the grader is never called,    *)
(* the decide step takes the rewrite branch, no generation call is made,   *)
(* and the invocation ends after exactly one request to the fallback model.*)
C15_EmptyRetrieval ==
    /\ Len(web_calls) <= 1
    /\ ("get_relevant_documents" \in Range(trace) /\ candidate_documents = <<>>) =>
          /\ error # "retrieval_error"
          /\ grade_calls = 0
          /\ graded = <<>>
          /\ gen_calls = <<>>
          /\ pc # "generate_answer_from_documents"
          /\ "decide" \in Range(trace) => DecidedRewrite
          /\ pc = "END" => (trace = FallbackPath /\ Len(web_calls) = 1)

C15_Witness ==
    /\ pc = "END"
    /\ "get_relevant_documents" \in Range(trace)
    /\ candidate_documents = <<>>
    /\ grade_calls = 0
    /\ Len(web_calls) = 1

(* C16: within an invocation the retrieval, the generation, the rewriter   *)
(* and the fallback model are each called at most once and the grader at   *)
(* most once per candidate, a failed call included; when the grade step    *)
(* completes the grader has been called once per candidate, and at END     *)
(* retrieval was called once and either generation once, or the rewriter   *)
(* once and then the fallback model once.                                  *)
C16_EveryCallOnce ==
    /\ retrieval_calls <= 1
    /\ Len(gen_calls) <= 1
    /\ Len(rewrite_calls) <= 1
    /\ Len(web_calls) <= 1
    /\ grade_calls <= Len(candidate_documents)
    /\ grade_calls \in {idx, idx + 1}
    /\ GradeDone => grade_calls = Len(candidate_documents)
    /\ pc = "END" =>
          /\ retrieval_calls = 1
          /\ \/ Len(gen_calls) = 1 /\ Len(rewrite_calls) = 0 /\ Len(web_calls) = 0
             \/ Len(gen_calls) = 0 /\ Len(rewrite_calls) = 1 /\ Len(web_calls) = 1

C16_Witness ==
    /\ pc = "END"
    /\ OnFallbackPath
    /\ retrieval_calls = 1
    /\ grade_calls = 3
    /\ Len(rewrite_calls) = 1
    /\ Len(web_calls) = 1

(* C17: when an invocation starts, no channel other than the query holds a *)
(* value: nothing is left from an earlier invocation on the same graph.    *)
C17_NoStateCarriedOver ==
    pc = "get_model" =>
        /\ agent_response = <<>>
        /\ relevant_documents = <<>>
        /\ agent_metadata = None
        /\ filter_model = "unset"
        /\ basic_model = "unset"

(* C18: with the same query, an unchanged store and a grader that answers  *)
(* as a function of the document and the query, every invocation whose     *)
(* grade step completes stores the same set of documents as the first one. *)
C18_SameFilteredMembership ==
    (GradeDone /\ first_filtered # <<>>) =>
        Range(relevant_documents) = Range(first_filtered[1].documents)

C18_Witness ==
    /\ deterministic
    /\ run = 2
    /\ GradeDone
    /\ first_filtered # <<>>
    /\ first_filtered[1].run = 1
    /\ Len(candidate_documents) = 3
    /\ Len(relevant_documents) = 1

(* C19: an invocation that ends with a failure of get_model has issued no  *)
(* retrieval, grading, generation, rewrite or fallback call and has run no *)
(* node.                                                                   *)
C19_InitFailureAborts ==
    error = "configuration_error" =>
        /\ pc = "failed"
        /\ trace = <<>>
        /\ retrieval_calls = 0
        /\ grade_calls = 0
        /\ gen_calls = <<>>
        /\ rewrite_calls = <<>>
        /\ web_calls = <<>>

C19_Witness ==
    /\ error = "configuration_error"
    /\ pc = "failed"
    /\ run = 2
    /\ agent_response # <<>>

(* C20: an invocation whose retrieval call fails ends with that error: no  *)
(* grading, generation, rewrite or fallback call is made, no later node    *)
(* runs and END is not reached.                                            *)
C20_RetrievalFailurePropagates ==
    error = "retrieval_error" =>
        /\ pc = "failed"
        /\ trace = <<"get_model">>
        /\ retrieval_calls = 1
        /\ candidate_documents = <<>>
        /\ grade_calls = 0
        /\ gen_calls = <<>>
        /\ rewrite_calls = <<>>
        /\ web_calls = <<>>

C20_Witness ==
    /\ error = "retrieval_error"
    /\ pc = "failed"
    /\ retrieval_calls = 1
    /\ trace = <<"get_model">>

(* C22: whenever a grading call is about to start after an earlier one of  *)
(* the same invocation, at least 6 time units have passed since that       *)
(* earlier call started.                                                   *)
C22_GradingCallsSpaced ==
    (pc = "grade_loop" /\ in_flight = 0 /\ idx < Len(documents)
        /\ grade_calls >= 1) =>
            (since_call # <<>> /\ since_call[1] >= 6)

C22_Witness ==
    /\ pc = "grade_loop"
    /\ in_flight = 0
    /\ idx < Len(documents)
    /\ grade_calls = 2
    /\ since_call = Some(7)

(* C23: at most one grading call is in flight; the documents are handed to *)
(* the grader in retrieval order, each after the answer for the one before *)
(* has come back; outside the grading loop no call is in flight, and once  *)
(* the grade step has completed every candidate has been answered.         *)
C23_GradingSequential ==
    /\ in_flight \in {0, 1}
    /\ in_flight = 1 => pc = "grade_loop"
    /\ grade_calls <= Len(candidate_documents)
    /\ grade_args = SubSeq(candidate_documents, 1, grade_calls)
    /\ pc # "failed" => Len(graded) = grade_calls - in_flight
    /\ GradeDone => (in_flight = 0 /\ Len(graded) = Len(candidate_documents))

C23_Witness ==
    /\ pc = "grade_loop"
    /\ in_flight = 1
    /\ grade_calls = 3
    /\ Len(graded) = 2

(* C24: the generation step is only ever about to run, and the generation  *)
(* call is only ever made, with a non-empty document list; a response made *)
(* by the generation step always comes with metadata.                      *)
C24_GenerateNeverOnEmpty ==
    /\ pc = "generate_answer_from_documents" => relevant_documents # <<>>
    /\ \A i \in 1..Len(gen_calls) : gen_calls[i].documents # <<>>
    /\ OnGeneratePath => agent_metadata # None

C24_Witness ==
    /\ pc = "generate_answer_from_documents"
    /\ Len(relevant_documents) = 1
    /\ Len(candidate_documents) = 3

(* C25: every document the grade step holds, hands to the grader, keeps or *)
(* stores, and every document passed to the generation call, is one of the *)
(* documents retrieval returned, text and metadata unchanged, and a        *)
(* document of the store.                                                  *)
C25_DocumentsNeverMutated ==
    LET held == Range(documents) \cup Range(filtered_documents)
                  \cup Range(grade_args)
                  \cup (IF GradeDone THEN Range(relevant_documents) ELSE {})
                  \cup UNION {Range(gen_calls[i].documents) :
                                  i \in 1..Len(gen_calls)}
    IN \A d \in held :
          /\ d \in Corpus
          /\ \E i \in 1..Len(candidate_documents) :
                /\ d.page_content = candidate_documents[i].page_content
                /\ d.metadata = candidate_documents[i].metadata

C25_Witness ==
    /\ pc = "END"
    /\ OnGeneratePath
    /\ Len(gen_calls) = 1
    /\ Len(gen_calls[1].documents) = 2
    /\ Len(candidate_documents) = 3

Running == pc \notin {"START", "END", "failed"}

(* C26: every invocation under way eventually reaches END or fails; it     *)
(* runs no node twice, and it makes at most one grading call per retrieved *)
(* candidate, of which there are at most top-k.                            *)
C26_EveryInvocationTerminates ==
    /\ Running ~> (pc \in {"END", "failed"})
    /\ [](/\ NoDuplicates(trace)
          /\ grade_calls <= Len(candidate_documents)
          /\ Len(candidate_documents) <= TopK)

C26_Witness ==
    /\ pc = "END"
    /\ run = 1
    /\ grade_calls = 3
    /\ OnFallbackPath

(* the row add_ai_message inserts for a response and a metadata dict *)
AssistantRow(d, session_id, content, metadata) ==
    [id |-> d.seq + 1, session_id |-> session_id, role |-> "assistant",
     content |-> content, metadata |-> metadata]

LastRow == db.messages[Len(db.messages)]

(* C21: whenever the graph raises while a prompt is handled, the run of    *)
(* the script does not end with an exception: the handling ends, the       *)
(* cannot-understand message is appended to the messages on screen and is  *)
(* stored as the assistant message of the session, with an empty metadata  *)
(* dict.                                                                   *)
C21_PipelineFailureHandled ==
    [][\A b \in Browsers :
          InvokeRaises(b) =>
              /\ ui_pc'[b] = "idle"
              /\ db'.messages =
                    Append(db.messages,
                           AssistantRow(db, handling[b].session_id,
                                        CannotUnderstand,
                                        Some(json_dumps(<<>>))))
              /\ session_state'[b].messages =
                    Append(session_state[b].messages,
                           LocalMessage("assistant", CannotUnderstand))]_vars

C21_Witness ==
    /\ Len(db.messages) >= 2
    /\ LastRow.role = "assistant"
    /\ LastRow.content = CannotUnderstand
    /\ LastRow.metadata = Some(json_dumps(<<>>))
    /\ db.messages[Len(db.messages) - 1].role = "user"
    /\ db.messages[Len(db.messages) - 1].session_id = LastRow.session_id
    /\ \E b \in Browsers :
          /\ ui_pc[b] = "idle"
          /\ Len(session_state[b].messages) = 2
          /\ session_state[b].messages[2].content = CannotUnderstand

(* C27: every step that ends the handling of a prompt stores exactly one   *)
(* assistant message, in the session the user message was stored in.       *)
C27_AssistantMessageStored ==
    [][\A b \in Browsers :
          (ui_pc[b] = "invoking" /\ ui_pc'[b] = "idle") =>
              /\ Len(db'.messages) = Len(db.messages) + 1
              /\ db'.messages[Len(db'.messages)].role = "assistant"
              /\ db'.messages[Len(db'.messages)].session_id =
                    handling[b].session_id]_vars

(* C28: every row of the messages table names a session that has a row in  *)
(* the sessions table.                                                     *)
C28_ReferentialIntegrity ==
    \A i \in 1..Len(db.messages) :
        \E s \in db.sessions : s.id = db.messages[i].session_id

(* C29: a step of start_new_session leaves every stored message in the     *)
(* messages table.                                                         *)
C29_NewChatKeepsMessages ==
    [][\A b \in Browsers :
          StartNewSession(b) =>
              \A i \in 1..Len(db.messages) :
                  \E j \in 1..Len(db'.messages) :
                      db'.messages[j] = db.messages[i]]_vars

(* the sessions of a database that no row of the messages table names *)
SessionsWithoutMessages(d) ==
    {s \in d.sessions :
        \A i \in 1..Len(d.messages) : d.messages[i].session_id # s.id}

(* C30: on every database the application reaches, delete_empty_sessions   *)
(* removes exactly the sessions without messages, returns how many they    *)
(* are, and leaves the other sessions and the messages table as they are;  *)
(* a page load leaves the database in that state.                          *)
C30_DeleteEmptySessions ==
    /\ [](LET result == delete_empty_sessions(db)
          IN /\ result.db.sessions =
                   db.sessions \ SessionsWithoutMessages(db)
             /\ result.deleted_count =
                   Cardinality(SessionsWithoutMessages(db))
             /\ result.db.messages = db.messages
             /\ result.db.seq = db.seq
             /\ list_empty_sessions(db) = SessionsWithoutMessages(db))
    /\ [][\A b \in Browsers :
             InitSessionStateDelete(b) =>
                 /\ db'.sessions = db.sessions \ SessionsWithoutMessages(db)
                 /\ db'.messages = db.messages]_vars

C30_Witness ==
    /\ \E b \in Browsers : ui_pc[b] = "loading"
    /\ issued = 2
    /\ Cardinality(db.sessions) = 1
    /\ SessionsWithoutMessages(db) = {}
    /\ Len(db.messages) >= 1

(* C31: a delete_session(id) call leaves no session row of the id and no   *)
(* message of the id, get_session(id) being None and get_messages(id)      *)
(* empty afterwards, and every other session and its messages are as they  *)
(* were.                                                                   *)
C31_DeleteSessionRemoves ==
    [][\A session_id \in StoreIds :
          CallDeleteSession(session_id) =>
              /\ get_session(db', session_id) = None
              /\ get_messages(db', session_id) = <<>>
              /\ \A other \in StoreIds \ {session_id} :
                    /\ get_session(db', other) = get_session(db, other)
                    /\ get_messages(db', other) = get_messages(db, other)
              /\ db'.seq = db.seq]_vars

(* a session has been deleted with its rows, and the other session is      *)
(* there with a message                                                    *)
C31_Witness ==
    /\ call.op = "delete_session"
    /\ Len(db.messages) < db.seq
    /\ get_session(db, call.session_id) = None
    /\ \E other \in StoreIds \ {call.session_id} :
          /\ get_session(db, other) # None
          /\ get_messages(db, other) # <<>>

(* C32: a create_session call inserts a row only when no session has the   *)
(* id: on an existing id the database is left as it is (the name, the      *)
(* creation time and the messages of the session included), on a new id    *)
(* the row of the call is inserted; no two sessions ever share an id, and  *)
(* the call returns the id in both cases.                                  *)
C32_CreateSessionOnlyIfAbsent ==
    /\ [](\A s, t \in db.sessions : s.id = t.id => s = t)
    /\ [][\A session_id \in StoreIds, c \in StoreCreations :
             CallCreateSession(session_id, c) =>
                 /\ get_session(db, session_id) # None =>
                       /\ get_session(db', session_id) =
                             get_session(db, session_id)
                       /\ db' = db
                 /\ get_session(db, session_id) = None =>
                       /\ get_session(db', session_id) =
                             Some([id |-> session_id, name |-> c.name,
                                   created_at |-> c.now])
                       /\ db'.sessions \ db.sessions =
                             {[id |-> session_id, name |-> c.name,
                               created_at |-> c.now]}
                       /\ db.sessions \subseteq db'.sessions
                 /\ get_messages(db', session_id) =
                       get_messages(db, session_id)
                 /\ db'.messages = db.messages
                 /\ call'.result = Some(session_id)]_vars

(* create_session was called with another name on a session that has a     *)
(* message, and the session has the name and the creation time of its      *)
(* first call                                                              *)
C32_Witness ==
    /\ call.op = "create_session"
    /\ call.arg = <<"x">>
    /\ call.result = Some(call.session_id)
    /\ get_session(db, call.session_id) =
          Some([id |-> call.session_id, name |-> NewChatName,
                created_at |-> 1])
    /\ get_messages(db, call.session_id) # <<>>

(* the rows of a session in the order add_message inserted them *)
AddedTo(d, session_id) ==
    SelectSeq(d.messages, LAMBDA m : m.session_id = session_id)

(* the last k elements of a sequence *)
LastElements(seq, k) == SubSeq(seq, Len(seq) - k + 1, Len(seq))

(* C33: get_messages(id) returns the messages of the session in the order  *)
(* they were added, and for every n >= 0 get_last_n_messages(id, n)        *)
(* returns the last min(n, count) elements of get_messages(id) in the same *)
(* order; so do the calls a client makes.                                  *)
C33_MessagesInOrder ==
    /\ \A session_id \in StoreIds :
          LET all == get_messages(db, session_id)
              added == AddedTo(db, session_id)
          IN /\ all = [i \in 1..Len(added) |-> RowDict(added[i])]
             /\ \A i, j \in 1..Len(all) : i < j => all[i].id < all[j].id
             /\ \A n \in LimitInputs :
                   n >= 0 =>
                      get_last_n_messages(db, session_id, n) =
                         LastElements(all, Min(n, Len(all)))
    /\ call.op = "get_messages" =>
          call.result = [i \in 1..Len(AddedTo(db, call.session_id)) |->
                            RowDict(AddedTo(db, call.session_id)[i])]
    /\ (call.op = "get_last_n_messages" /\ call.arg >= 0) =>
          call.result =
             LastElements(get_messages(db, call.session_id),
                          Min(call.arg, Len(get_messages(db, call.session_id))))

(* get_last_n_messages(id, 1) was called on a session of two messages and  *)
(* returned the second one                                                 *)
C33_Witness ==
    /\ call.op = "get_last_n_messages"
    /\ call.arg = 1
    /\ Len(get_messages(db, call.session_id)) = 2
    /\ call.result = <<get_messages(db, call.session_id)[2]>>
    /\ call.result[1].id = db.seq

(* C34: compiled_graph.invoke is called only in a run of the script in     *)
(* which both keys were validated; a run in which the validation of the    *)
(* Gemini key or of the Groq key fails calls no invoke and stores no       *)
(* message.                                                                *)
C34_InvokeOnlyWithValidKeys ==
    /\ [](\A b \in Browsers :
            ui_pc[b] = "invoking" =>
                /\ handling[b].validate_gemini_key
                /\ handling[b].validate_groq_key)
    /\ [][\A b \in Browsers :
             /\ (InvokeReturns(b) \/ InvokeRaises(b)) =>
                   /\ handling[b].validate_gemini_key
                   /\ handling[b].validate_groq_key
             /\ InputDisabled(b) =>
                   /\ ui_pc'[b] # "invoking"
                   /\ db' = db
                   /\ session_state' = session_state]_vars

(* one browser session shows the chat input disabled after a failed        *)
(* validation, with no message of its session stored, while the other,     *)
(* with both keys validated, has stored its prompt and waits for invoke    *)
C34_Witness ==
    \E b, o \in Browsers :
        /\ ui_pc[b] = "disabled"
        /\ session_state[b].has
        /\ get_messages(db, session_state[b].current_session) = <<>>
        /\ ui_pc[o] = "invoking"
        /\ handling[o].validate_gemini_key
        /\ handling[o].validate_groq_key
        /\ Len(db.messages) = 1
        /\ db.messages[1].session_id = handling[o].session_id

(* the message the last add_ai_message call stored, as get_messages        *)
(* returns it                                                              *)
Returned ==
    LET rows == get_messages(db, call.session_id)
    IN rows[Len(rows)]

(* every key of the dict is a string, as json.loads returns it *)
StringKeys(metadata) ==
    metadata # None => \A k \in DOMAIN metadata[1] : JsonKey(k) = k

====
